---- MODULE Spec2Model ----
(***************************************************************************)
(* Model of the snx request router (src/src/http/routing/router.rs).       *)
(*                                                                         *)
(* A path is a string, modelled as a sequence of one-character strings so  *)
(* that splitting on '/', the empty-segment filter, the ':' prefix test    *)
(* and the character search of sort_routes are computed, not assumed.      *)
(* A program run constructs a RouterBuilder and builds a Router from it,   *)
(* or constructs a Router directly, and then routes a request.             *)
(***************************************************************************)
EXTENDS Integers, Sequences, FiniteSets, TLC

VARIABLES builder, router, call, op

vars == <<builder, router, call, op>>

(* ------------------------------ bounds -------------------------------- *)

\* Largest number of routes a builder (or a directly constructed Router)
\* holds in the model.
MaxRoutes == 2

\* Largest slice handed to one add_routes call.
MaxBatch == 2

(* ------------------------------ inputs -------------------------------- *)

\* Method (method.rs): the two verbs that Route has constructors for.
Methods == {"GET", "POST"}

\* Path patterns the routes are declared with.
RoutePaths ==
    { <<"/">>,                              \* "/"
      <<"/", "a">>,                         \* "/a"
      <<"/", "a", "/", "b">>,               \* "/a/b"
      <<"/", ":", "x">>,                    \* "/:x"
      <<"/", "a", "/", ":", "y">>,          \* "/a/:y"
      <<"/", ":", "x", "/", "b">>,          \* "/:x/b"
      <<"/", "a", ":">>,                    \* "/a:"
      <<"/", "*">>,                         \* "/*"
      <<"/", "a", "/", "*">> }              \* "/a/*"

\* The path patterns that are also declared with Route::post.
PostPaths ==
    { <<"/", "a">>,                         \* "/a"
      <<"/", "a", "/", ":", "y">> }         \* "/a/:y"

\* Paths of the incoming requests.
RequestPaths ==
    { <<"/">>,                              \* "/"
      <<"/", "a">>,                         \* "/a"
      <<"/", "/", "a", "/">>,               \* "//a/"
      <<"/", "b">>,                         \* "/b"
      <<"/", "a", ":">>,                    \* "/a:"
      <<"/", "a", "/", "b">>,               \* "/a/b"
      <<"/", "a", "/", "/", "b">>,          \* "/a//b"
      <<"/", "b", "/", "b">>,               \* "/b/b"
      <<"/", "a", "/", "b", "/", "a">> }    \* "/a/b/a"

(* ------------------------------- Route -------------------------------- *)

\* Route { method, path }
Route(method, path) == [method |-> method, path |-> path]

\* Route::get
get(path) == Route("GET", path)

\* Route::post
post(path) == Route("POST", path)

Routes == {get(p) : p \in RoutePaths} \cup {post(p) : p \in PostPaths}

\* Sequences of at most n routes.
RouteSeqs(n) == UNION {[1..k -> Routes] : k \in 0..n}

Min(a, b) == IF a < b THEN a ELSE b

(* ---------------------------- str helpers ----------------------------- *)

\* str::contains with a set of characters as the pattern.
contains(path, chars) == \E i \in 1..Len(path) : path[i] \in chars

\* str::split(sep) : every piece between separators, empty ones included.
RECURSIVE split_from(_, _, _, _)
split_from(path, sep, i, cur) ==
    IF i > Len(path) THEN <<cur>>
    ELSE IF path[i] = sep
         THEN <<cur>> \o split_from(path, sep, i + 1, <<>>)
         ELSE split_from(path, sep, i + 1, Append(cur, path[i]))

split(path, sep) == split_from(path, sep, 1, <<>>)

\* str::starts_with(ch)
starts_with(seg, ch) == Len(seg) > 0 /\ seg[1] = ch

\* str::strip_prefix(ch), used only where starts_with holds.
strip_prefix(seg) == Tail(seg)

\* The split without the filter of empty segments.
split_segments_unfiltered(path) == split(path, "/")

\* path.split('/').filter(|s| !s.is_empty()).collect()
split_segments(path) == SelectSeq(split(path, "/"), LAMBDA s : Len(s) > 0)

(* --------------------------- RouterBuilder ---------------------------- *)

DYNAMIC_CHARS == {":", "*"}

\* !path.contains(DYNAMIC_CHARS)
no_dynamic_chars(path) == ~contains(path, DYNAMIC_CHARS)

\* bool::cmp : false < true; -1 Less, 0 Equal, 1 Greater.
bool_cmp(x, y) == IF x = y THEN 0 ELSE IF y THEN -1 ELSE 1

\* The comparator closure of sort_routes.
route_order(a, b) ==
    bool_cmp(no_dynamic_chars(b.path), no_dynamic_chars(a.path))

\* slice::sort_by is a stable sort: an element goes after every element
\* already placed that does not compare Greater than it.
RECURSIVE insert_stable(_, _)
insert_stable(sorted, r) ==
    IF sorted = <<>> THEN <<r>>
    ELSE LET last == sorted[Len(sorted)]
         IN IF route_order(last, r) = 1
            THEN Append(insert_stable(SubSeq(sorted, 1, Len(sorted) - 1), r), last)
            ELSE Append(sorted, r)

RECURSIVE sort_from(_, _, _)
sort_from(routes, i, sorted) ==
    IF i > Len(routes) THEN sorted
    ELSE sort_from(routes, i + 1, insert_stable(sorted, routes[i]))

\* RouterBuilder::sort_routes
sort_routes(routes) == sort_from(routes, 1, <<>>)

(* ------------------------------- Router ------------------------------- *)

\* HashMap::new()
NoParams == <<>>

\* HashMap::insert : the last write for a key wins.
insert(params, name, value) ==
    [k \in (DOMAIN params) \cup {name} |-> IF k = name THEN value ELSE params[k]]

\* What a call of route() can end in: Some(MatchedRoute), None, or the
\* panic of a todo!().
NoRoute == Route("-", <<>>)
Some(r, params) == [kind |-> "Some", route |-> r, params |-> params]
None == [kind |-> "None", route |-> NoRoute, params |-> NoParams]
Panic == [kind |-> "panic", route |-> NoRoute, params |-> NoParams]

\* The body of the inner loop with a literal mismatch let through.
segment_step_lenient(route_seg, request_seg, params) ==
    IF route_seg = <<"*">>
    THEN [status |-> "panic", params |-> params]
    ELSE IF starts_with(route_seg, ":")
    THEN [status |-> "next",
          params |-> insert(params, strip_prefix(route_seg), request_seg)]
    ELSE [status |-> "next", params |-> params]

\* The body of the inner loop, for one (route_seg, request_seg) pair:
\* "panic" is the todo!(), "continue" is `continue 'outer`, "next" goes on
\* to the next pair.  params is the one map shared by the whole scan.
segment_step(route_seg, request_seg, params) ==
    IF route_seg = <<"*">>
    THEN [status |-> "panic", params |-> params]
    ELSE IF starts_with(route_seg, ":")
    THEN [status |-> "next",
          params |-> insert(params, strip_prefix(route_seg), request_seg)]
    ELSE IF route_seg # request_seg
    THEN [status |-> "continue", params |-> params]
    ELSE [status |-> "next", params |-> params]

\* for (route_seg, request_seg) in route_segments.iter().zip(request_segments.iter())
RECURSIVE zip_walk(_, _, _, _)
zip_walk(route_segments, request_segments, i, params) ==
    IF i > Len(route_segments) \/ i > Len(request_segments)
    THEN [status |-> "next", params |-> params]
    ELSE LET step == segment_step(route_segments[i], request_segments[i], params)
         IN IF step.status = "next"
            THEN zip_walk(route_segments, request_segments, i + 1, step.params)
            ELSE step

\* The length comparison without the rejection of a longer request.
length_check_prefix(route_segments, request_segments) ==
    IF Len(route_segments) > Len(request_segments)
    THEN IF route_segments[Len(request_segments) + 1] = <<"*">>
         THEN "panic"
         ELSE "continue"
    ELSE "match"

\* The two length comparisons after the inner loop.
length_check(route_segments, request_segments) ==
    IF Len(route_segments) > Len(request_segments)
    THEN IF route_segments[Len(request_segments) + 1] = <<"*">>
         THEN "panic"
         ELSE "continue"
    ELSE IF Len(request_segments) > Len(route_segments)
    THEN "continue"
    ELSE "match"

\* 'outer: for route in self.routes, from the i-th route on.
RECURSIVE scan_routes(_, _, _, _)
scan_routes(routes, i, request_path, params) ==
    IF i > Len(routes) THEN None
    ELSE LET r == routes[i]
             route_segments == split_segments(r.path)
             request_segments == split_segments(request_path)
             walk == zip_walk(route_segments, request_segments, 1, params)
             lens == length_check(route_segments, request_segments)
         IN IF walk.status = "panic" THEN Panic
            ELSE IF walk.status = "continue"
            THEN scan_routes(routes, i + 1, request_path, walk.params)
            ELSE IF lens = "panic" THEN Panic
            ELSE IF lens = "continue"
            THEN scan_routes(routes, i + 1, request_path, walk.params)
            ELSE Some(r, walk.params)

\* Router::route : the request's path is all that is read of the request.
route(routes, request_path) == scan_routes(routes, 1, request_path, NoParams)

(* ------------------------------- state -------------------------------- *)

\* A RouterBuilder or Router value: not constructed yet, live, or moved
\* out of by a consuming call (build(self), route(self, ..)).
Absent == [state |-> "none", routes |-> <<>>]
Live(routes) == [state |-> "live", routes |-> routes]
Moved == [state |-> "moved", routes |-> <<>>]

\* No call of route() made yet.
NoCall == [made |-> FALSE, table |-> <<>>, method |-> "-", path |-> <<>>,
           result |-> None]

Init ==
    /\ builder = Absent
    /\ router = Absent
    /\ call = NoCall
    /\ op = "init"

\* Router::builder() / RouterBuilder::new()
BuilderNew ==
    /\ builder.state = "none"
    /\ router.state = "none"
    /\ builder' = Live(<<>>)
    /\ op' = "builder"
    /\ UNCHANGED <<router, call>>

\* RouterBuilder::add_route
add_route(r) ==
    /\ builder.state = "live"
    /\ Len(builder.routes) < MaxRoutes
    /\ builder' = Live(Append(builder.routes, r))
    /\ op' = "add_route"
    /\ UNCHANGED <<router, call>>

\* RouterBuilder::add_routes
add_routes(rs) ==
    /\ builder.state = "live"
    /\ Len(builder.routes) + Len(rs) <= MaxRoutes
    /\ builder' = Live(builder.routes \o rs)
    /\ op' = "add_routes"
    /\ UNCHANGED <<router, call>>

\* RouterBuilder::build : consumes the builder.
build ==
    /\ builder.state = "live"
    /\ router' = Live(sort_routes(builder.routes))
    /\ builder' = Moved
    /\ op' = "build"
    /\ UNCHANGED call

\* Router::new
RouterNew(routes) ==
    /\ builder.state = "none"
    /\ router.state = "none"
    /\ router' = Live(routes)
    /\ op' = "new"
    /\ UNCHANGED <<builder, call>>

\* A call router.route(request).  route takes self by value, so the Router
\* is moved into the call and its routes are consumed by the loop.  The
\* request arrived with an HTTP method, of which Request keeps no field.
RouteCall(method, path) ==
    /\ router.state = "live"
    /\ call' = [made |-> TRUE, table |-> router.routes, method |-> method,
                path |-> path, result |-> route(router.routes, path)]
    /\ router' = Moved
    /\ op' = "route"
    /\ UNCHANGED builder

Next ==
    \/ BuilderNew
    \/ \E r \in Routes : add_route(r)
    \/ \E rs \in RouteSeqs(Min(MaxBatch, MaxRoutes - Len(builder.routes))) :
           add_routes(rs)
    \/ build
    \/ \E routes \in RouteSeqs(MaxRoutes) : RouterNew(routes)
    \/ \E m \in Methods, p \in RequestPaths : RouteCall(m, p)

Spec == Init /\ [][Next]_vars

(* ---------------------- vocabulary of the claims ---------------------- *)

\* The non-empty '/'-separated segments of a path, read off the positions
\* of the slashes: a segment is a maximal run of characters other than '/'.
RefStarts(p) == {i \in 1..Len(p) : p[i] # "/" /\ (i = 1 \/ p[i - 1] = "/")}

RefEnd(p, i) ==
    CHOOSE j \in i..Len(p) :
        /\ \A k \in i..j : p[k] # "/"
        /\ (j = Len(p) \/ p[j + 1] = "/")

RefSegs(p) ==
    LET S == RefStarts(p)
        nth(k) == CHOOSE i \in S : Cardinality({j \in S : j < i}) = k - 1
    IN [k \in 1..Cardinality(S) |-> SubSeq(p, nth(k), RefEnd(p, nth(k)))]

IsDynamicSeg(seg) == seg[1] = ":"

IsWildcardSeg(seg) == seg = <<"*">>

\* A pattern with no dynamic and no wildcard segment.
StaticPattern(path) ==
    \A i \in 1..Len(RefSegs(path)) :
        ~IsDynamicSeg(RefSegs(path)[i]) /\ ~IsWildcardSeg(RefSegs(path)[i])

HasWildcard(path) ==
    \E i \in 1..Len(RefSegs(path)) : IsWildcardSeg(RefSegs(path)[i])

WildcardFree(table) == \A i \in 1..Len(table) : ~HasWildcard(table[i].path)

\* The reference matcher: same number of segments, each pattern segment
\* dynamic or equal to the request segment at its position.
RefMatches(pattern, path) ==
    LET ps == RefSegs(pattern)
        rs == RefSegs(path)
    IN /\ Len(ps) = Len(rs)
       /\ \A i \in 1..Len(ps) : IsDynamicSeg(ps[i]) \/ ps[i] = rs[i]

\* The pattern agrees with the request on their common prefix.
RefPrefixAgrees(pattern, path) ==
    LET ps == RefSegs(pattern)
        rs == RefSegs(path)
    IN \A i \in 1..Len(ps) : i <= Len(rs) => (IsDynamicSeg(ps[i]) \/ ps[i] = rs[i])

\* The parameters of a pattern for a request: one per ':name' segment.
RefParams(pattern, path) ==
    LET ps == RefSegs(pattern)
        rs == RefSegs(path)
        D == {i \in 1..Len(ps) : IsDynamicSeg(ps[i])}
    IN [name \in {Tail(ps[i]) : i \in D} |->
            rs[CHOOSE i \in D : Tail(ps[i]) = name]]

\* out is ins with its static routes first, both groups in the order of ins.
StablePartition(ins, out) ==
    out = SelectSeq(ins, LAMBDA r : StaticPattern(r.path))
            \o SelectSeq(ins, LAMBDA r : ~StaticPattern(r.path))

\* The table the call scanned came from RouterBuilder::build.
CallOnBuiltTable == call.made /\ builder.state = "moved"

(* ------------------------------- claims ------------------------------- *)

\* C1: on a table from build(), when some route with no dynamic and no
\* wildcard segment has exactly the request's segments, route() returns a
\* route with no dynamic or wildcard segment.
Claim_C1_StaticWins ==
    (/\ CallOnBuiltTable
     /\ \E i \in 1..Len(call.table) :
            /\ StaticPattern(call.table[i].path)
            /\ RefSegs(call.table[i].path) = RefSegs(call.path))
    => (call.result.kind = "Some" /\ StaticPattern(call.result.route.path))

\* C2: the params of a match are exactly those of the matched route's
\* ':name' segments, each bound to the request segment at its position.
Claim_C2_ParamsOfMatchOnly ==
    (call.made /\ call.result.kind = "Some")
    => call.result.params = RefParams(call.result.route.path, call.path)

\* C3: a returned route has the method of the request.
Claim_C3_MethodDiscrimination ==
    (call.made /\ call.result.kind = "Some")
    => call.result.route.method = call.method

\* C4: on a table without wildcard segments route() returns the first route
\* in table order that the reference matcher accepts, and None exactly
\* when there is no such route.
Claim_C4_FirstMatchWins ==
    (call.made /\ WildcardFree(call.table))
    => LET M == {i \in 1..Len(call.table) : RefMatches(call.table[i].path, call.path)}
       IN IF M = {}
          THEN call.result.kind = "None"
          ELSE /\ call.result.kind = "Some"
               /\ call.result.route = call.table[CHOOSE i \in M : \A j \in M : i <= j]

\* C4 witness: the match is the second route of the table, the first one
\* having been rejected, and it bound a parameter.
Witness_C4 ==
    /\ call.made
    /\ WildcardFree(call.table)
    /\ Len(call.table) >= 2
    /\ call.result.kind = "Some"
    /\ call.result.route = call.table[2]
    /\ ~RefMatches(call.table[1].path, call.path)
    /\ DOMAIN call.result.params # {}

\* C5: build() yields the inserted routes with those that have no dynamic
\* or wildcard segment first, each group in insertion order.
Claim_C5_BuildStablePartition ==
    [][op' = "build" => StablePartition(builder.routes, router'.routes)]_vars

\* C6: build() does not hand out a table that holds a wildcard route.
Claim_C6_WildcardFailsAtBuild ==
    (builder.state = "moved" /\ router.state = "live")
    => WildcardFree(router.routes)

\* C7: a call of route() leaves the table unchanged and available.
Claim_C7_RouteLeavesTable ==
    [][op' = "route" => router' = router]_vars

\* C8: request paths with the same non-empty segments get the same outcome.
Claim_C8_PathNormalization ==
    call.made
    => \A q \in RequestPaths :
           RefSegs(q) = RefSegs(call.path) => route(call.table, q) = call.result

\* C8 witness: a request path with a doubled slash was matched and bound a
\* parameter, and another request path has the same segments.
Witness_C8 ==
    /\ call.made
    /\ \E i \in 1..(Len(call.path) - 1) : call.path[i] = "/" /\ call.path[i + 1] = "/"
    /\ call.result.kind = "Some"
    /\ DOMAIN call.result.params # {}
    /\ \E q \in RequestPaths : q # call.path /\ RefSegs(q) = RefSegs(call.path)

\* C9: on a table without wildcard segments the returned route has as many
\* segments as the request.
Claim_C9_NoMatchOnLengthMismatch ==
    (call.made /\ WildcardFree(call.table) /\ call.result.kind = "Some")
    => Len(RefSegs(call.result.route.path)) = Len(RefSegs(call.path))

\* C9 witness: the table's first route agrees with the request on every
\* segment it has but is shorter than the request; the second is returned.
Witness_C9 ==
    /\ call.made
    /\ WildcardFree(call.table)
    /\ Len(call.table) >= 2
    /\ RefPrefixAgrees(call.table[1].path, call.path)
    /\ Len(RefSegs(call.table[1].path)) < Len(RefSegs(call.path))
    /\ Len(RefSegs(call.table[1].path)) > 0
    /\ call.result.kind = "Some"
    /\ call.result.route = call.table[2]

\* C10: every live Router holds its static routes before its dynamic and
\* wildcard routes.
Claim_C10_TableOrdered ==
    router.state = "live"
    => \A i, j \in 1..Len(router.routes) :
           (i < j /\ StaticPattern(router.routes[j].path))
           => StaticPattern(router.routes[i].path)

====
